---- MODULE Spec2Model ----
(***************************************************************************)
(* Model of ok.py: a Streamlit script that keeps users in users.db, loads  *)
(* a vaccination spreadsheet into vaccination_data.db when that table is   *)
(* empty, gates a dashboard behind a login and filters the data by state,  *)
(* city and vaccine description.                                           *)
(*                                                                         *)
(* One action is one script run triggered by one browser interaction of    *)
(* one session, including the st.experimental_rerun() it may end with.     *)
(***************************************************************************)
EXTENDS Naturals, Sequences, FiniteSets, TLC

VARIABLES
    userdb,      \* users.db: the users table
    vaccdb,      \* vaccination_data.db: the vaccination_data table
    source,      \* the spreadsheet at DATASET_PATH (environment)
    console,     \* what load_data_into_db printed in the runs of the last step
    sess,        \* st.session_state of every browser session
    last,        \* the interaction each session's last script run handled
    view,        \* what each session's last script run rendered
    pend,        \* a signup between its user_exists check and its add_user
    registered   \* history: the (username, password) of every add_user that returned True

vars == <<userdb, vaccdb, source, console, sess, last, view, pend, registered>>

(***************************************************************************)
(* Bounds and input domains                                                *)
(***************************************************************************)
MaxRows == 2          \* rows of a dataset the filter is explored on
MaxLoadRows == 2      \* rows of a spreadsheet the loader is explored on

Sessions == {"s1", "s2"}
Usernames == {"alice", "bob"}
Passwords == {"pw1", "pw2"}

Null == "<NA>"        \* None / NaN / SQL NULL in a cell or a widget value
NoUser == "<unset>"   \* session_state has no "username" key

(***************************************************************************)
(* Storage: users.db                                                       *)
(***************************************************************************)
\* hashlib.sha256(password.encode()).hexdigest(), by its value on the
\* passwords explored (leading 16 hex digits of the real digests).
hash_password(password) ==
    CASE password = "pw1" -> "c592df4a86933b92"
      [] password = "pw2" -> "93915a0a4bf8f634"
      [] password = ""    -> "e3b0c44298fc1c14"
      [] OTHER            -> "072aa9e9fb9d5162"

NoUserTable == [exists |-> FALSE, rows |-> <<>>]

\* CREATE TABLE IF NOT EXISTS users (id ..., username TEXT UNIQUE, password TEXT)
setup_user_database(db) ==
    IF db.exists THEN db ELSE [exists |-> TRUE, rows |-> <<>>]

\* Mutant of user_exists: the lookup finds nothing.
user_exists_never(db, username) == FALSE

\* SELECT * FROM users WHERE username = ?  (fetchone is truthy)
user_exists(db, username) ==
    \E i \in 1..Len(db.rows) : db.rows[i].username = username

\* Mutant of UniqueViolated: the column is declared without UNIQUE.
UniqueNotDeclared(db, username) == FALSE

\* The UNIQUE constraint on users.username, as sqlite checks it on INSERT.
UniqueViolated(db, username) ==
    \E i \in 1..Len(db.rows) : db.rows[i].username = username

\* Mutant of add_user: the password is stored as typed, not hashed.
add_user_plaintext(db, username, password) ==
    IF UniqueViolated(db, username)
    THEN [db |-> db, ok |-> FALSE]
    ELSE [db |-> [db EXCEPT !.rows = Append(@,
                    [id |-> Len(db.rows) + 1,
                     username |-> username,
                     password |-> password])],
          ok |-> TRUE]

\* INSERT INTO users (username, password) VALUES (?, hash); True on commit,
\* False on sqlite3.IntegrityError.
add_user(db, username, password) ==
    IF UniqueViolated(db, username)
    THEN [db |-> db, ok |-> FALSE]
    ELSE [db |-> [db EXCEPT !.rows = Append(@,
                    [id |-> Len(db.rows) + 1,
                     username |-> username,
                     password |-> hash_password(password)])],
          ok |-> TRUE]

\* Mutant of authenticate_user: any password passes for a known username.
authenticate_user_any_password(db, username, password) ==
    SelectSeq(db.rows, LAMBDA r : r.username = username) # <<>>

\* SELECT password FROM users WHERE username = ?; compare with the hash.
authenticate_user(db, username, password) ==
    LET found == SelectSeq(db.rows, LAMBDA r : r.username = username)
    IN  /\ found # <<>>
        /\ Head(found).password = hash_password(password)

(***************************************************************************)
(* Storage: vaccination_data.db and the spreadsheet                        *)
(***************************************************************************)
SchemaCols == {"STATE", "CITY", "AGE_GROUP", "GENDER", "ETHNICITY",
               "VACCINATED", "Year", "DESCRIPTION"}

NoTable == [exists |-> FALSE, cols |-> {}, rows |-> <<>>]
NoFile == [exists |-> FALSE, cols |-> {}, rows |-> <<>>]

\* CREATE TABLE IF NOT EXISTS vaccination_data (id ..., STATE ..., DESCRIPTION TEXT)
setup_vaccination_database(db) ==
    IF db.exists THEN db
    ELSE [exists |-> TRUE, cols |-> SchemaCols \cup {"id"}, rows |-> <<>>]

\* SELECT COUNT(*) FROM vaccination_data > 0
is_data_present(db) == Len(db.rows) > 0

\* df.to_sql("vaccination_data", conn, if_exists="replace", index=False):
\* the table is dropped and created again from the frame's own columns.
to_sql_replace(df) == [exists |-> TRUE, cols |-> df.cols, rows |-> df.rows]

\* Mutant of ShouldLoad: the emptiness guard is dropped.
ShouldLoadAlways(db) == TRUE

\* The guard of load_data_into_db: load only into an empty table.
ShouldLoad(db) == ~is_data_present(db)

\* Mutant of load_data_into_db: os.path.exists is not consulted, and a
\* missing file is written as an empty frame.
load_data_unchecked(db, src) ==
    IF ShouldLoad(db)
    THEN [db |-> to_sql_replace(src), msg |-> "loaded"]
    ELSE [db |-> db, msg |-> "skipped"]

load_data_into_db(db, src) ==
    IF ShouldLoad(db)
    THEN IF src.exists
         THEN [db |-> to_sql_replace(src), msg |-> "loaded"]
         ELSE [db |-> db, msg |-> "file_not_found"]
    ELSE [db |-> db, msg |-> "skipped"]

\* Lines 72-75, run at the top of every script run.
Startup(db, src) == load_data_into_db(setup_vaccination_database(db), src)

\* The table and the console after `runs` starts of the script in a row (a
\* run that ends in st.experimental_rerun() starts the script again).
RECURSIVE ScriptTop(_, _, _)
ScriptTop(db, src, runs) ==
    IF runs = 0 THEN [db |-> db, out |-> <<>>]
    ELSE LET prev == ScriptTop(db, src, runs - 1)
             r == Startup(prev.db, src)
         IN  [db |-> r.db, out |-> Append(prev.out, r.msg)]

(***************************************************************************)
(* Dashboard: pandas frame, widgets and the filter (lines 178-199)         *)
(***************************************************************************)
\* pd.read_sql("SELECT * FROM vaccination_data", conn): rows under a 0-based index.
read_sql(db) ==
    [cols |-> db.cols,
     recs |-> [i \in 1..Len(db.rows) |-> [index |-> i - 1, row |-> db.rows[i]]]]

\* df[c] as the sequence of its values.
Column(df, c) == [i \in 1..Len(df.recs) |-> df.recs[i].row[c]]

dropna(col) == SelectSeq(col, LAMBDA v : v # Null)

\* Series.unique(): the distinct values in order of first appearance.
RECURSIVE unique(_)
unique(col) ==
    IF col = <<>> THEN <<>>
    ELSE LET front == unique(SubSeq(col, 1, Len(col) - 1))
             x == col[Len(col)]
         IN  IF \E i \in 1..Len(front) : front[i] = x THEN front
             ELSE Append(front, x)

\* series == value, elementwise: a missing value compares False with anything.
SeriesEq(v, value) == v # Null /\ value # Null /\ v = value

\* series.isin(values), elementwise.
SeriesIsIn(v, values) == v \in values

\* df[mask]: the records whose mask entry is True, index kept.
RECURSIVE BoolIndex(_, _)
BoolIndex(recs, mask) ==
    IF recs = <<>> THEN <<>>
    ELSE LET front == BoolIndex(SubSeq(recs, 1, Len(recs) - 1),
                                SubSeq(mask, 1, Len(mask) - 1))
         IN  IF mask[Len(recs)] THEN Append(front, recs[Len(recs)]) ELSE front

\* The options of the three sidebar widgets.
StateOptions(df) == unique(dropna(Column(df, "STATE")))

CityOptions(df, state) ==
    LET mask == [i \in 1..Len(df.recs) |-> SeriesEq(df.recs[i].row["STATE"], state)]
        sub == [cols |-> df.cols, recs |-> BoolIndex(df.recs, mask)]
    IN  unique(dropna(Column(sub, "CITY")))

vaccine_options(df) == unique(dropna(Column(df, "DESCRIPTION")))

Range(seq) == {seq[i] : i \in 1..Len(seq)}

\* A selectbox returns one of its options, None when it has none.
SelectboxValues(options) == IF options = <<>> THEN {Null} ELSE Range(options)

\* Widget values on the first render: index 0 of each selectbox, every
\* option of the multiselect (default=vaccine_options).
DefaultPick(df) ==
    LET st == IF StateOptions(df) = <<>> THEN Null ELSE Head(StateOptions(df))
        ci == IF CityOptions(df, st) = <<>> THEN Null ELSE Head(CityOptions(df, st))
    IN  [state |-> st, city |-> ci, vaccines |-> Range(vaccine_options(df))]

\* The widget values a user can submit for the frame on screen.
Picks(df) ==
    {[state |-> st, city |-> ci, vaccines |-> vs] :
        st \in SelectboxValues(StateOptions(df)),
        ci \in UNION {SelectboxValues(CityOptions(df, x)) :
                        x \in SelectboxValues(StateOptions(df))},
        vs \in SUBSET Range(vaccine_options(df))}

ValidPick(df, pick) ==
    /\ pick.state \in SelectboxValues(StateOptions(df))
    /\ pick.city \in SelectboxValues(CityOptions(df, pick.state))
    /\ pick.vaccines \subseteq Range(vaccine_options(df))

\* Mutant of filtered_df: the description condition is left out.
filtered_df_any_description(df, state, city, selected_vaccines) ==
    LET mask == [i \in 1..Len(df.recs) |->
                    /\ SeriesEq(df.recs[i].row["STATE"], state)
                    /\ SeriesEq(df.recs[i].row["CITY"], city)]
    IN  BoolIndex(df.recs, mask)

\* Mutant of filtered_df: the city condition is left out.
filtered_df_any_city(df, state, city, selected_vaccines) ==
    LET mask == [i \in 1..Len(df.recs) |->
                    /\ SeriesEq(df.recs[i].row["STATE"], state)
                    /\ SeriesIsIn(df.recs[i].row["DESCRIPTION"], selected_vaccines)]
    IN  BoolIndex(df.recs, mask)

\* Line 195.
filtered_df(df, state, city, selected_vaccines) ==
    LET mask == [i \in 1..Len(df.recs) |->
                    /\ SeriesEq(df.recs[i].row["STATE"], state)
                    /\ SeriesEq(df.recs[i].row["CITY"], city)
                    /\ SeriesIsIn(df.recs[i].row["DESCRIPTION"], selected_vaccines)]
    IN  BoolIndex(df.recs, mask)

NoPick == [state |-> Null, city |-> Null, vaccines |-> {}]
NoView == [page |-> "none", dfRead |-> FALSE, pick |-> NoPick, filtered |-> <<>>]

\* Lines 178-199 for an authenticated session; df["STATE"] and the other
\* column reads raise KeyError when the table has no such column.
Dashboard(db, pick) ==
    LET df == read_sql(db)
    IN  IF {"STATE", "CITY", "DESCRIPTION"} \subseteq df.cols
        THEN [page |-> "dashboard", dfRead |-> TRUE, pick |-> pick,
              filtered |-> filtered_df(df, pick.state, pick.city, pick.vaccines)]
        ELSE [page |-> "key_error", dfRead |-> TRUE, pick |-> NoPick,
              filtered |-> <<>>]

\* Mutant of Render: the dashboard is drawn without looking at the flag.
RenderUngated(session, db, pick) == Dashboard(db, pick)

\* Lines 162-199 of a run in which no button is clicked: what ends up on screen.
Render(session, db, pick) ==
    IF ~session.authenticated
    THEN [NoView EXCEPT !.page = IF session.signup THEN "signup" ELSE "login"]
    ELSE Dashboard(db, pick)

\* The default pick for the table, when its columns allow one.
PickFor(db) ==
    IF {"STATE", "CITY", "DESCRIPTION"} \subseteq db.cols
    THEN DefaultPick(read_sql(db)) ELSE NoPick

(***************************************************************************)
(* Sessions and script runs                                                *)
(***************************************************************************)
NewSession == [opened |-> FALSE, authenticated |-> FALSE, signup |-> FALSE,
               username |-> NoUser]
NoClick == [op |-> "none", username |-> "", password |-> "", result |-> "none"]
NoPend == [active |-> FALSE, username |-> "", password |-> ""]

Click(op, username, password, result) ==
    [op |-> op, username |-> username, password |-> password, result |-> result]

\* Lines 157-160: the defaults a session gets in its first run.
WithDefaults(session) == [session EXCEPT !.opened = TRUE]

InitCommon ==
    /\ userdb = NoUserTable
    /\ vaccdb = NoTable
    /\ console = <<>>
    /\ sess = [s \in Sessions |-> NewSession]
    /\ last = [s \in Sessions |-> NoClick]
    /\ view = [s \in Sessions |-> NoView]
    /\ pend = [s \in Sessions |-> NoPend]
    /\ registered = <<>>

\* The sidebar widgets as a run finds them when the user has not set them.
Untouched == [state |-> "<default>", city |-> "<default>", vaccines |-> {}]

\* A step of session s that starts the script `runs` times (2 when the run
\* ends in a rerun): the top of the script each time, then the session, the
\* handled click and the screen (untouched widgets show their defaults).
Run(s, session, click, udb, runs, pick) ==
    LET top == ScriptTop(vaccdb, source, runs)
    IN  /\ userdb' = udb
        /\ vaccdb' = top.db
        /\ console' = top.out
        /\ sess' = [sess EXCEPT ![s] = session]
        /\ last' = [last EXCEPT ![s] = click]
        /\ view' = [view EXCEPT ![s] =
                        Render(session, top.db,
                               IF pick = Untouched THEN PickFor(top.db) ELSE pick)]
        /\ UNCHANGED source

\* A script run with no button pressed: the page is opened, or rerun.
PageLoad(s) ==
    /\ ~pend[s].active
    /\ Run(s, WithDefaults(sess[s]), NoClick, setup_user_database(userdb),
           1, Untouched)
    /\ UNCHANGED <<pend, registered>>

\* login_page, "Login" pressed (lines 119-125).
Login(s, username, password) ==
    /\ sess[s].opened /\ ~sess[s].authenticated /\ ~sess[s].signup
    /\ ~pend[s].active
    /\ LET udb == setup_user_database(userdb)
           ok == authenticate_user(udb, username, password)
       IN  Run(s,
               IF ok THEN [sess[s] EXCEPT !.authenticated = TRUE,
                                          !.username = username]
                     ELSE sess[s],
               Click("login", username, password,
                     IF ok THEN "LoginOK" ELSE "InvalidCredentials"),
               udb, IF ok THEN 2 ELSE 1, Untouched)
    /\ UNCHANGED <<pend, registered>>

\* login_page, "Sign Up" pressed (lines 128-130).
OpenSignup(s) ==
    /\ sess[s].opened /\ ~sess[s].authenticated /\ ~sess[s].signup
    /\ ~pend[s].active
    /\ Run(s, [sess[s] EXCEPT !.signup = TRUE], Click("open_signup", "", "", "none"),
           setup_user_database(userdb), 2, Untouched)
    /\ UNCHANGED <<pend, registered>>

\* signup_page, "Go to Login" pressed (lines 152-154).
GoToLogin(s) ==
    /\ sess[s].opened /\ ~sess[s].authenticated /\ sess[s].signup
    /\ ~pend[s].active
    /\ Run(s, [sess[s] EXCEPT !.signup = FALSE], Click("go_to_login", "", "", "none"),
           setup_user_database(userdb), 2, Untouched)
    /\ UNCHANGED <<pend, registered>>

\* Lines 144-149: add_user and what signup_page does with its answer, in a
\* run that started the script `started` times so far in this step.
SignupInsert(s, username, password, started) ==
    LET r == add_user(setup_user_database(userdb), username, password)
    IN  /\ Run(s,
               IF r.ok THEN [sess[s] EXCEPT !.signup = FALSE] ELSE sess[s],
               Click("signup", username, password,
                     IF r.ok THEN "AccountCreated" ELSE "SomethingWentWrong"),
               r.db, IF r.ok THEN started + 1 ELSE started, Untouched)
        /\ registered' = IF r.ok THEN Append(registered, <<username, password>>)
                         ELSE registered

\* Lines 138-142: the two checks signup_page makes before it inserts.
SignupRefused(s, username, password, confirm) ==
    /\ \/ password # confirm
       \/ user_exists(setup_user_database(userdb), username)
    /\ Run(s, sess[s],
           Click("signup", username, password,
                 IF password # confirm THEN "PasswordMismatch"
                 ELSE "DuplicateUsername"),
           setup_user_database(userdb), 1, Untouched)
    /\ UNCHANGED registered

SignupPassesChecks(username, password, confirm) ==
    /\ password = confirm
    /\ ~user_exists(setup_user_database(userdb), username)

\* signup_page, "Sign Up" pressed, the run uninterrupted (lines 138-149).
Signup(s, username, password, confirm) ==
    /\ sess[s].opened /\ ~sess[s].authenticated /\ sess[s].signup
    /\ ~pend[s].active
    /\ \/ SignupRefused(s, username, password, confirm)
       \/ /\ SignupPassesChecks(username, password, confirm)
          /\ SignupInsert(s, username, password, 1)
    /\ UNCHANGED pend

\* signup_page, "Sign Up" pressed, up to the answer of user_exists: another
\* session's run may go between this and the insert.
SignupCheck(s, username, password, confirm) ==
    /\ sess[s].opened /\ ~sess[s].authenticated /\ sess[s].signup
    /\ ~pend[s].active
    /\ \/ /\ SignupRefused(s, username, password, confirm)
          /\ UNCHANGED pend
       \/ /\ SignupPassesChecks(username, password, confirm)
          /\ Run(s, sess[s], Click("signup", username, password, "checked"),
                 setup_user_database(userdb), 1, Untouched)
          /\ pend' = [pend EXCEPT ![s] = [active |-> TRUE, username |-> username,
                                          password |-> password]]
          /\ UNCHANGED registered

\* The rest of that run: add_user and its outcome.
SignupCommit(s) ==
    /\ pend[s].active
    /\ SignupInsert(s, pend[s].username, pend[s].password, 0)
    /\ pend' = [pend EXCEPT ![s] = NoPend]

\* Dashboard, "Logout" pressed (lines 173-175).
Logout(s) ==
    /\ sess[s].opened /\ sess[s].authenticated
    /\ ~pend[s].active
    /\ Run(s, [sess[s] EXCEPT !.authenticated = FALSE], Click("logout", "", "", "none"),
           setup_user_database(userdb), 2, Untouched)
    /\ UNCHANGED <<pend, registered>>

\* The widget values session s can submit in its next run.
FilterChoices(db) ==
    IF {"STATE", "CITY", "DESCRIPTION"} \subseteq db.cols
    THEN {pick \in Picks(read_sql(db)) : ValidPick(read_sql(db), pick)}
    ELSE {}

\* Dashboard, a sidebar widget changed (lines 187-199).
Filter(s, pick) ==
    /\ sess[s].opened /\ sess[s].authenticated
    /\ ~pend[s].active
    /\ view[s].page = "dashboard"
    /\ pick \in FilterChoices(Startup(vaccdb, source).db)
    /\ Run(s, sess[s], Click("filter", "", "", "none"),
           setup_user_database(userdb), 1, pick)
    /\ UNCHANGED <<pend, registered>>

\* The spreadsheet at DATASET_PATH is created, replaced or removed.
SourceChange(src) ==
    /\ src # source
    /\ source' = src
    /\ UNCHANGED <<userdb, vaccdb, console, sess, last, view, pend, registered>>

(***************************************************************************)
(* The sequential application: one interaction at a time                   *)
(***************************************************************************)
SampleRow(state, city, description) ==
    [STATE |-> state, CITY |-> city, AGE_GROUP |-> "18-29", GENDER |-> "F",
     ETHNICITY |-> "E1", VACCINATED |-> TRUE, Year |-> 2021,
     DESCRIPTION |-> description]

Restrict(row, cols) == [c \in cols |-> row[c]]

File(cols, rows) ==
    [exists |-> TRUE, cols |-> cols,
     rows |-> [i \in 1..Len(rows) |-> Restrict(rows[i], cols)]]

\* A spreadsheet without the DESCRIPTION column.
BadCols == SchemaCols \ {"DESCRIPTION"}

SampleFile == File(SchemaCols, <<SampleRow("CA", "LA", "VaxA"),
                                 SampleRow("NY", "NYC", Null)>>)
BadSampleFile == File(BadCols, <<SampleRow("CA", "LA", "VaxA")>>)

\* The spreadsheet is on disk, with the table's columns or without one of
\* them (the loader's specification explores a missing file).
Init ==
    /\ InitCommon
    /\ source \in {SampleFile, BadSampleFile}

Next ==
    \E s \in Sessions :
        \/ PageLoad(s)
        \/ \E u \in Usernames, p \in Passwords : Login(s, u, p)
        \/ OpenSignup(s)
        \/ \E u \in Usernames, p \in Passwords, c \in Passwords : Signup(s, u, p, c)
        \/ GoToLogin(s)
        \/ Logout(s)

Spec == Init /\ [][Next]_vars

(***************************************************************************)
(* Signups of several sessions interleaved at their database calls         *)
(***************************************************************************)
InitConc ==
    /\ InitCommon
    /\ source = NoFile

NextConc ==
    \E s \in Sessions :
        \/ PageLoad(s)
        \/ OpenSignup(s)
        \/ \E u \in Usernames, p \in Passwords, c \in Passwords :
              SignupCheck(s, u, p, c)
        \/ SignupCommit(s)
        \/ GoToLogin(s)

SpecConc == InitConc /\ [][NextConc]_vars

(***************************************************************************)
(* The loader: script starts against a spreadsheet that comes and goes     *)
(***************************************************************************)
SeqsUpTo(S, n) == UNION {[1..k -> S] : k \in 0..n}

LoadRows == {SampleRow("CA", "LA", "VaxA"), SampleRow("NY", "NYC", "VaxB")}

DataSources ==
    {NoFile} \cup {File(cols, rows) : cols \in {SchemaCols, BadCols},
                                      rows \in SeqsUpTo(LoadRows, MaxLoadRows)}

InitData ==
    /\ InitCommon
    /\ source \in DataSources

NextData ==
    \/ \E s \in Sessions : PageLoad(s)
    \/ \E src \in DataSources : SourceChange(src)

SpecData == InitData /\ [][NextData]_vars

(***************************************************************************)
(* The filter: one user signs up, logs in and works the sidebar, over      *)
(* every small dataset with missing values                                 *)
(***************************************************************************)
\* (STATE, CITY) pairs: two cities of one state, another state, and a
\* missing value on either side.
Places == {<<"CA", "LA">>, <<"CA", "SF">>, <<"NY", "NYC">>,
           <<"CA", Null>>, <<Null, "LA">>}
Descriptions == {"VaxA", "VaxB", Null}

FilterRows ==
    {SampleRow(pl[1], pl[2], de) : pl \in Places, de \in Descriptions}

FilterSources == {File(SchemaCols, rows) : rows \in SeqsUpTo(FilterRows, MaxRows)}

InitFilter ==
    /\ InitCommon
    /\ source \in FilterSources

NextFilter ==
    \E s \in {"s1"} :
        \/ PageLoad(s)
        \/ OpenSignup(s)
        \/ Signup(s, "alice", "pw1", "pw1")
        \/ Login(s, "alice", "pw1")
        \/ \E pick \in FilterChoices(Startup(vaccdb, source).db) : Filter(s, pick)

SpecFilter == InitFilter /\ [][NextFilter]_vars

(***************************************************************************)
(* Properties                                                              *)
(***************************************************************************)
\* (username, password) is in the history of successful add_user calls.
WasRegistered(username, password) ==
    \E i \in 1..Len(registered) : registered[i] = <<username, password>>

IsRegistered(username) ==
    \E i \in 1..Len(registered) : registered[i][1] = username

\* C1: once add_user(u, p) has succeeded, then after any other signups and
\* login attempts a Login with the same u and p succeeds: the session is
\* authenticated and carries u as its username.
RegisterThenLoginSucceeds ==
    [][\A s \in Sessions, u \in Usernames, p \in Passwords :
          (WasRegistered(u, p) /\ Login(s, u, p))
              => /\ last'[s].result = "LoginOK"
                 /\ sess'[s].authenticated
                 /\ sess'[s].username = u]_vars

\* C1 witness: the user registered first is logged in while a second user
\* has been registered too.
RegisteredUserLoggedIn ==
    \E s \in Sessions :
        /\ Len(registered) = 2
        /\ last[s] = Click("login", registered[1][1], registered[1][2], "LoginOK")
        /\ sess[s].authenticated
        /\ sess[s].username = registered[1][1]

\* No stored row of this username holds the hash of this password (in
\* particular when no row has the username).
NoMatchingHash(db, username, password) ==
    \A i \in 1..Len(db.rows) :
        db.rows[i].username = username
            => db.rows[i].password # hash_password(password)

\* C2: a Login whose username is absent from the store, or whose password's
\* hash differs from the stored one, fails with InvalidCredentials, leaves
\* the session unauthenticated and leaves the credential store unchanged.
BadLoginRejected ==
    [][\A s \in Sessions, u \in Usernames, p \in Passwords :
          (Login(s, u, p) /\ NoMatchingHash(userdb, u, p))
              => /\ last'[s].result = "InvalidCredentials"
                 /\ ~sess'[s].authenticated
                 /\ sess'[s] = sess[s]
                 /\ userdb' = userdb]_vars

\* C2 witness: a login with a wrong password for a registered user has
\* failed, and another with an unknown username.
WrongPasswordRefused ==
    \E s, t \in Sessions :
        /\ last[s].op = "login" /\ last[s].result = "InvalidCredentials"
        /\ IsRegistered(last[s].username)
        /\ ~WasRegistered(last[s].username, last[s].password)
        /\ ~sess[s].authenticated
        /\ last[t].op = "login" /\ last[t].result = "InvalidCredentials"
        /\ ~IsRegistered(last[t].username)

\* Rows of the users table are never changed or removed.
UsersImmutable ==
    \A i \in 1..Len(userdb.rows) :
        /\ i <= Len(userdb'.rows)
        /\ userdb'.rows[i] = userdb.rows[i]

\* C3 as stated: every signup attempt for a username that is already
\* registered fails with DuplicateUsername and leaves the store unchanged.
DuplicateSignupAlwaysDuplicateUsername ==
    [][\A s \in Sessions, u \in Usernames, p \in Passwords, c \in Passwords :
          (IsRegistered(u) /\ Signup(s, u, p, c))
              => /\ last'[s].result = "DuplicateUsername"
                 /\ userdb' = userdb]_vars

\* C3 amended: every signup attempt for a registered username fails and
\* leaves the store unchanged -- with DuplicateUsername when the password
\* confirmation matches, with PasswordMismatch (tested first) when it does
\* not; stored rows never change, so exactly the original password logs in.
DuplicateSignupRejected ==
    [][/\ UsersImmutable
       /\ \A s \in Sessions, u \in Usernames, p \in Passwords, c \in Passwords :
            (IsRegistered(u) /\ Signup(s, u, p, c))
                => /\ last'[s].result = IF p = c THEN "DuplicateUsername"
                                        ELSE "PasswordMismatch"
                   /\ userdb' = userdb
                   /\ registered' = registered
                   /\ \A q \in Passwords :
                        authenticate_user(userdb', u, q) <=> WasRegistered(u, q)]_vars

\* C3 witness: a signup for a registered username with a different,
\* correctly confirmed password was refused as a duplicate.
SecondSignupRefused ==
    \E s \in Sessions :
        /\ last[s].op = "signup" /\ last[s].result = "DuplicateUsername"
        /\ IsRegistered(last[s].username)
        /\ ~WasRegistered(last[s].username, last[s].password)

\* C4: with the check and the insert of signups interleaved, the users
\* table never holds a username twice, no username has two successful
\* inserts, and an insert refused by the table is reported as a failure to
\* a session that stays on the signup page.
UsernamesUnique ==
    /\ \A i, j \in 1..Len(userdb.rows) :
          userdb.rows[i].username = userdb.rows[j].username => i = j
    /\ \A i, j \in 1..Len(registered) :
          registered[i][1] = registered[j][1] => i = j
    /\ \A s \in Sessions :
          last[s].result = "SomethingWentWrong"
              => /\ IsRegistered(last[s].username)
                 /\ sess[s].signup
                 /\ view[s].page = "signup"

\* C4 witness: two sessions passed the check for one username; one insert
\* succeeded and the other was refused by the table.
RacingSignupRefused ==
    \E s, t \in Sessions :
        /\ s # t
        /\ last[s].op = "signup" /\ last[s].result = "SomethingWentWrong"
        /\ last[t].op = "signup" /\ last[t].result = "AccountCreated"
        /\ last[s].username = last[t].username
        /\ Len(userdb.rows) = 1

\* C10: the authenticated flag is false in a session's first run, becomes
\* true only in a step whose Login passed authenticate_user for the
\* submitted credentials, becomes false only on Logout; the dataset is read
\* only by sessions whose flag is true, and a signup never sets the flag.
DashboardGated ==
    [][\A s \in Sessions :
          /\ (~sess[s].opened /\ sess'[s].opened) => ~sess'[s].authenticated
          /\ (~sess[s].authenticated /\ sess'[s].authenticated)
                => /\ last'[s].op = "login" /\ last'[s].result = "LoginOK"
                   /\ authenticate_user(userdb', last'[s].username, last'[s].password)
                   /\ sess'[s].username = last'[s].username
          /\ (sess[s].authenticated /\ ~sess'[s].authenticated)
                => last'[s].op = "logout"
          /\ last'[s].op = "logout" => ~sess'[s].authenticated
          /\ view'[s].dfRead => sess'[s].authenticated
          /\ view'[s].page \in {"dashboard", "key_error"} => sess'[s].authenticated
          /\ last'[s].op = "signup" => ~sess'[s].authenticated]_vars

\* C10 witness: one session is on the dashboard after a login while the
\* other, whose signup just succeeded, is on the login page with no data read.
GateSeenBothWays ==
    \E s, t \in Sessions :
        /\ sess[s].authenticated /\ view[s].page = "dashboard" /\ view[s].dfRead
        /\ last[t].result = "AccountCreated"
        /\ ~sess[t].authenticated /\ view[t].page = "login" /\ ~view[t].dfRead

\* C5: once the table holds a record, no later step changes it, whatever
\* the spreadsheet has become, and every script start reports that it
\* skipped the load.
LoadAtMostOnce ==
    [][is_data_present(vaccdb)
          => /\ vaccdb' = vaccdb
             /\ source' = source => console' = <<"skipped">>]_vars

\* C5 witness: a script start skipped the load although the spreadsheet
\* on disk now differs from what the table holds.
ReloadSkipped ==
    /\ console = <<"skipped">>
    /\ is_data_present(vaccdb)
    /\ source.exists
    /\ source.rows # <<>>
    /\ source.rows # vaccdb.rows

\* C8: a script start with the table empty and the spreadsheet missing
\* reports file-not-found, writes nothing and still renders the login page;
\* a script start with the table empty and the spreadsheet present loads it.
MissingSourceRecoverable ==
    [][\A s \in Sessions :
          (PageLoad(s) /\ ~is_data_present(vaccdb))
              => IF ~source.exists
                 THEN /\ console' = <<"file_not_found">>
                      /\ vaccdb'.rows = <<>>
                      /\ ~is_data_present(vaccdb')
                      /\ vaccdb' = setup_vaccination_database(vaccdb)
                      /\ view'[s].page = "login"
                 ELSE /\ console' = <<"loaded">>
                      /\ vaccdb'.rows = source.rows]_vars

\* C8 witness: the load failed for a missing file, the table is empty and
\* the session is on the login page.
LoadFailedNotFatal ==
    \E s \in Sessions :
        /\ console = <<"file_not_found">>
        /\ ~source.exists
        /\ vaccdb.exists /\ vaccdb.rows = <<>>
        /\ sess[s].opened /\ view[s].page = "login"

\* C9 as stated: every record in the dataset store has exactly the
\* VaccinationRecord attribute set (rows that do not conform are refused).
StoredRecordsConform ==
    \A i \in 1..Len(vaccdb.rows) : DOMAIN vaccdb.rows[i] = SchemaCols

\* The record matches the criteria as the claim words it.
Matches(row, pick) ==
    /\ row.STATE = pick.state
    /\ row.CITY = pick.city
    /\ row.DESCRIPTION \in pick.vaccines

\* The 0-based positions of the records on screen.
ShownIndices(s) == {view[s].filtered[k].index : k \in 1..Len(view[s].filtered)}

\* What is on screen is a sub-frame of the table: records of the table at
\* their own positions, in table order, none twice.
ShownIsSubframe(s) ==
    LET f == view[s].filtered
    IN  /\ \A k \in 1..Len(f) :
              /\ f[k].index + 1 \in 1..Len(vaccdb.rows)
              /\ f[k].row = vaccdb.rows[f[k].index + 1]
        /\ \A k, m \in 1..Len(f) : k < m => f[k].index < f[m].index

\* C6: on the dashboard, for criteria with a state and a city, the records
\* shown are exactly those whose state and city equal the criteria's and
\* whose description is among the selected ones; with nothing matching (or
\* no state or city to select) the result is empty and the page still renders.
FilterExact ==
    \A s \in Sessions :
        view[s].page = "dashboard"
            => /\ ShownIsSubframe(s)
               /\ IF view[s].pick.state # Null /\ view[s].pick.city # Null
                  THEN \A i \in 1..Len(vaccdb.rows) :
                          (i - 1) \in ShownIndices(s)
                              <=> Matches(vaccdb.rows[i], view[s].pick)
                  ELSE view[s].filtered = <<>>
               /\ view[s].pick.vaccines = {} => view[s].filtered = <<>>

\* C6 witness: of two CA/LA records that differ in description, the filter
\* on VaxA shows exactly the first.
FilterScenario ==
    \E s \in Sessions :
        /\ view[s].page = "dashboard" /\ last[s].op = "filter"
        /\ vaccdb.rows = <<SampleRow("CA", "LA", "VaxA"), SampleRow("CA", "LA", "VaxB")>>
        /\ view[s].pick = [state |-> "CA", city |-> "LA", vaccines |-> {"VaxA"}]
        /\ view[s].filtered = <<[index |-> 0, row |-> SampleRow("CA", "LA", "VaxA")]>>

\* The distinct non-null descriptions of the table.
AllDescriptions ==
    {vaccdb.rows[i].DESCRIPTION : i \in 1..Len(vaccdb.rows)} \ {Null}

FullSelection(s) ==
    /\ view[s].page = "dashboard"
    /\ view[s].pick.state # Null /\ view[s].pick.city # Null
    /\ view[s].pick.vaccines = AllDescriptions

\* C7 as stated: with every description selected, the records shown are
\* exactly those matching state and city, null descriptions included.
FullSelectionIgnoresDescription ==
    \A s \in Sessions :
        FullSelection(s)
            => \A i \in 1..Len(vaccdb.rows) :
                  (i - 1) \in ShownIndices(s)
                      <=> /\ vaccdb.rows[i].STATE = view[s].pick.state
                          /\ vaccdb.rows[i].CITY = view[s].pick.city

\* C7 amended: with every description selected, the records shown are
\* exactly those matching state and city whose description is not null.
FullSelectionKeepsDescribed ==
    \A s \in Sessions :
        FullSelection(s)
            => /\ ShownIsSubframe(s)
               /\ \A i \in 1..Len(vaccdb.rows) :
                    (i - 1) \in ShownIndices(s)
                        <=> /\ vaccdb.rows[i].STATE = view[s].pick.state
                            /\ vaccdb.rows[i].CITY = view[s].pick.city
                            /\ vaccdb.rows[i].DESCRIPTION # Null

\* C7 witness: every description is selected, one record of the chosen
\* state and city is shown and another, with no description, is not.
NullDescriptionDropped ==
    \E s \in Sessions :
        /\ FullSelection(s)
        /\ Len(view[s].filtered) = 1
        /\ \E i \in 1..Len(vaccdb.rows) :
              /\ vaccdb.rows[i].STATE = view[s].pick.state
              /\ vaccdb.rows[i].CITY = view[s].pick.city
              /\ vaccdb.rows[i].DESCRIPTION = Null
              /\ (i - 1) \notin ShownIndices(s)

====
